---------------------------- MODULE Spec2Model ----------------------------
(***************************************************************************)
(* A model of the label-encoding and batch-generation pipeline of the      *)
(* YOLO detector (src/yolo/batch_gen.py), of the label check of            *)
(* src/yolo/train.py and of the output-path computation of the predict     *)
(* commands (src/predict_driver.py, src/yolo/predict.py).                  *)
(*                                                                         *)
(* Numbers.  The code computes with floats; the model computes with exact  *)
(* rationals.  A grid-normalized coordinate is kept as its numerator over  *)
(* the denominator Den(c) = 2 * c.input_size, so that                      *)
(*      cx = (xmin + xmax)/2 * grid_size/input_size                        *)
(* is the numerator (xmin + xmax) * grid_size.  Entries 0..3 of a slot of  *)
(* the grid target and the entries of the truth-box buffer are such        *)
(* numerators; entries 4.. of a slot (objectness, classes) are plain       *)
(* integers.  An IoU is a pair <<numerator, denominator>>.                 *)
(***************************************************************************)
EXTENDS Integers, Sequences, FiniteSets, TLC

VARIABLES
    \* ---- LabelBatchGenerator.generate (one call in progress) ----
    conf,            \* the GeneratorConfig the generators were built from
    gpc,             \* "idle" | "loop" | "done": position inside generate
    boxes,           \* argument: corner boxes <<xmin, ymin, xmax, ymax>> in pixels
    labels,          \* argument: integer class codes, parallel to boxes
    norm_boxes,      \* local: to_normalize(to_centroid(boxes))
    k,               \* local: number of (norm_box, label) pairs the loop has consumed
    y,               \* local: the grid target being built
    b_,              \* local: the truth-box buffer being built
    true_box_index,  \* local: next slot of the truth-box buffer
    best_anchor,     \* local: anchor chosen for the pair consumed last (-1 before any)
    \* ---- BatchGenerator ----
    annotations,     \* the annotation source's components, in their current order
    jitter,          \* BatchGenerator.jitter
    counter,         \* BatchGenerator.counter
    last,            \* the most recent call on the generator and what it gave back
    fetches,         \* history: __getitem__ calls completed since the last on_epoch_end
    shuffle_calls,   \* history: annotations.shuffle() invocations made by the most recent call
    \* ---- train(conf) ----
    tpc,             \* position inside train
    model_labels,    \* config['model']['labels']
    train_labels,    \* the labels seen by parse_annotation (keys of train_labels)
    valid_exists,    \* os.path.exists(config['valid']['valid_annot_folder'])
    weights_exist,   \* os.path.exists(config['train']['pretrained_weights'])
    printed,         \* whether the "Some labels have no images!" message was printed
    steps,           \* the steps after the label check, in the order performed
    \* ---- the predict commands ----
    ppc,             \* "start" | "done"
    entry,           \* which command ran: "driver" (predict_driver.py) or "predict"
    input_path,      \* the input image path, a sequence of characters
    output_path      \* the path handed to cv2.imwrite

genVars == <<gpc, boxes, labels, norm_boxes, k, y, b_, true_box_index, best_anchor>>
batchVars == <<annotations, jitter, counter, last, fetches, shuffle_calls>>
trainVars == <<tpc, model_labels, train_labels, valid_exists, weights_exist, printed, steps>>
predictVars == <<ppc, entry, input_path, output_path>>
vars == <<conf, genVars, batchVars, trainVars, predictVars>>

-----------------------------------------------------------------------------
(* Bounds of the model *)

\* longest list of ground-truth boxes handed to one generate call
MaxBoxes == 3

\* most annotation components (images) of an annotation source
MaxAnnotations == 3

\* largest batch_size of a configuration
MaxBatchSize == 2

\* the batch counter is followed up to this value
MaxCounter == 2

\* longest list of configured labels
MaxLabels == 2

\* longest input path, in characters
MaxPathLen == 6

-----------------------------------------------------------------------------
(* Generic helpers *)

Min(a, b) == IF a < b THEN a ELSE b

RECURSIVE SumSet(_, _)
\* the sum of f[i] over the finite set S
SumSet(S, f) ==
    IF S = {} THEN 0
    ELSE LET i == CHOOSE j \in S : TRUE IN f[i] + SumSet(S \ {i}, f)

-----------------------------------------------------------------------------
(* GeneratorConfig *)

\* GeneratorConfig.__init__: nb_box and n_classes are derived fields
GeneratorConfig(input_size, grid_size, labelNames, batch_size, max_box_per_image, anchors) ==
    [input_size        |-> input_size,
     grid_size         |-> grid_size,
     nb_box            |-> Len(anchors) \div 2,
     labels            |-> labelNames,
     anchors           |-> anchors,
     batch_size        |-> batch_size,
     max_box_per_image |-> max_box_per_image,
     n_classes         |-> Len(labelNames)]

\* The configurations explored.  Anchors are <<w0, h0, w1, h1, ...>> in grid cells.
ConfigsOfBatchSize(batch_size) ==
    { GeneratorConfig(2, 2, <<"a", "b">>, batch_size, 2, <<1, 2, 2, 1>>),
      GeneratorConfig(2, 1, <<"a">>, batch_size, 1, <<1, 1, 2, 2, 1, 1>>) }

Configs == UNION { ConfigsOfBatchSize(bsz) : bsz \in 1..MaxBatchSize }

\* one more configuration for the label generator alone: four anchors, the
\* second, third and fourth of equal area
LabelConfigs ==
    ConfigsOfBatchSize(1) \cup
    { GeneratorConfig(2, 1, <<"a">>, 1, 2, <<2, 2, 1, 2, 2, 1, 1, 2>>) }

\* denominator of every grid-normalized number under configuration c
Den(c) == 2 * c.input_size


-----------------------------------------------------------------------------
(* yolo.box: geometry (not among the sources; modelled from the design text) *)

\* BoundBox(x, y, w, h)
BoundBox(bx, by, bw, bh) == [x |-> bx, y |-> by, w |-> bw, h |-> bh]

\* to_centroid: (xmin, ymin, xmax, ymax) -> (cx, cy, w, h); numerators over 2
to_centroid(bs) ==
    [i \in 1..Len(bs) |->
        <<bs[i][1] + bs[i][3], bs[i][2] + bs[i][4],
          2 * (bs[i][3] - bs[i][1]), 2 * (bs[i][4] - bs[i][2])>>]

\* to_normalize: every coordinate times grid_size/input_size; the numerators
\* over 2 become numerators over 2 * input_size
to_normalize(cs, input_size, grid_size) ==
    [i \in 1..Len(cs) |-> [j \in 1..4 |-> cs[i][j] * grid_size]]

\* bbox_iou of two boxes sharing the origin: intersection area over union area,
\* as <<numerator, denominator>>
bbox_iou(b1, b2) ==
    LET inter == Min(b1.w, b2.w) * Min(b1.h, b2.h)
    IN  <<inter, b1.w * b1.h + b2.w * b2.h - inter>>

-----------------------------------------------------------------------------
(* LabelBatchGenerator *)

\* _create_anchor_boxes: anchor i is BoundBox(0, 0, anchors[2i], anchors[2i+1]);
\* indices 0..n-1 as in the code, sizes brought to the denominator Den(c)
create_anchor_boxes(c) ==
    [i \in 0..((Len(c.anchors) \div 2) - 1) |->
        BoundBox(0, 0, c.anchors[2*i + 1] * Den(c), c.anchors[2*i + 2] * Den(c))]

\* mutation of IouLess: "<=" lets a later anchor of equal IoU win
IouLessOrEqual(max_iou, iou) == max_iou[1] * iou[2] <= iou[1] * max_iou[2]

\* the test "max_iou < iou" of _get_anchor_idx, on rationals with positive
\* denominators
IouLess(max_iou, iou) == max_iou[1] * iou[2] < iou[1] * max_iou[2]

RECURSIVE AnchorLoop(_, _, _, _, _)
\* the for loop of _get_anchor_idx from index i on
AnchorLoop(anchorBoxes, shifted_box, i, best, max_iou) ==
    IF i \notin DOMAIN anchorBoxes THEN best
    ELSE LET iou == bbox_iou(shifted_box, anchorBoxes[i])
         IN  IF IouLess(max_iou, iou)
             THEN AnchorLoop(anchorBoxes, shifted_box, i + 1, i, iou)
             ELSE AnchorLoop(anchorBoxes, shifted_box, i + 1, best, max_iou)

\* _get_anchor_idx(box): best_anchor = -1 and max_iou = -1 before the loop
get_anchor_idx(c, box) ==
    AnchorLoop(create_anchor_boxes(c), BoundBox(0, 0, box[3], box[4]), 0, -1, <<-1, 1>>)

\* numpy astype(int) of the number num/Den(c): truncation toward zero
astype_int(c, num) ==
    IF num >= 0 THEN num \div Den(c) ELSE -((-num) \div Den(c))

\* the cell-anchor slots of a grid target and the entries of one slot
Slots(c) ==
    (0..(c.grid_size - 1)) \X (0..(c.grid_size - 1)) \X (0..(c.nb_box - 1))
Entries(c) == 0..(4 + c.n_classes)

\* np.zeros((grid_size, grid_size, nb_box, 4+1+n_classes))
ZerosY(c) == [s \in Slots(c) |-> [e \in Entries(c) |-> 0]]

\* mutation of ZerosB: the buffer sized by nb_box instead of max_box_per_image
ZerosBOfNbBox(c) == [j \in 0..(c.nb_box - 1) |-> <<0, 0, 0, 0>>]

\* np.zeros((1, 1, 1, max_box_per_image, 4)), the three unit axes dropped
ZerosB(c) == [j \in 0..(c.max_box_per_image - 1) |-> <<0, 0, 0, 0>>]

\* mutation of SlotIndex: the grid indexed [grid_x, grid_y]
SlotIndexXY(c, best, box) ==
    <<astype_int(c, box[1]), astype_int(c, box[2]), best>>

\* the index y[grid_y, grid_x, best_anchor] of _generate_y, where
\* grid_x, grid_y, _, _ = box.astype(int)
SlotIndex(c, best, box) ==
    <<astype_int(c, box[2]), astype_int(c, box[1]), best>>

\* _generate_y: a zero tensor with one slot written, the three assignments
\* in the order of the code
generate_y(c, best, obj_indx, box) ==
    LET s  == SlotIndex(c, best, box)
        e0 == [e \in Entries(c) |-> IF e \in 0..3 THEN box[e + 1] ELSE 0]
        e1 == [e0 EXCEPT ![4] = 1]
        e2 == [e1 EXCEPT ![5 + obj_indx] = 1]
    IN  [ZerosY(c) EXCEPT ![s] = e2]

\* mutation of TensorAdd: the written slots of t replace those of acc
TensorOverwrite(acc, t) ==
    [s \in DOMAIN acc |-> IF \E e \in DOMAIN t[s] : t[s][e] # 0 THEN t[s] ELSE acc[s]]

\* mutation of TensorAdd: a slot written before keeps its content
TensorFirstWins(acc, t) ==
    [s \in DOMAIN acc |-> IF \E e \in DOMAIN acc[s] : acc[s][e] # 0 THEN acc[s] ELSE t[s]]

\* "y += t" on two tensors of one shape
TensorAdd(acc, t) ==
    [s \in DOMAIN acc |-> [e \in DOMAIN acc[s] |-> acc[s][e] + t[s][e]]]

\* mutation of NextTrueBoxIndex: the increment without the wrap
NextTrueBoxIndexNoWrap(c, i) == i + 1

\* true_box_index += 1; true_box_index = true_box_index % max_box_per_image
NextTrueBoxIndex(c, i) == (i + 1) % c.max_box_per_image

\* the pairs zip(norm_boxes, labels) yields
ZipLen(nbs, ls) == Min(Len(nbs), Len(ls))

\* the loop body's update of y: y += self._generate_y(best_anchor, label, norm_box)
StepY(c, acc, norm_box, label) ==
    TensorAdd(acc, generate_y(c, get_anchor_idx(c, norm_box), label, norm_box))

\* the loop body's update of b_: b_[0, 0, 0, true_box_index] = norm_box
StepB(buf, i, norm_box) == [buf EXCEPT ![i] = norm_box]

RECURSIVE GenerateLoop(_, _, _, _, _, _, _)
\* the loop of generate from pair n (counted from 0) on; gives <<y, b_>>
GenerateLoop(c, nbs, ls, n, acc, buf, i) ==
    IF n >= ZipLen(nbs, ls) THEN <<acc, buf>>
    ELSE GenerateLoop(c, nbs, ls, n + 1,
                      StepY(c, acc, nbs[n + 1], ls[n + 1]),
                      StepB(buf, i, nbs[n + 1]),
                      NextTrueBoxIndex(c, i))

\* generate(boxes, labels) as a function of its arguments: <<y, b_>>
generate(c, bs, ls) ==
    GenerateLoop(c, to_normalize(to_centroid(bs), c.input_size, c.grid_size), ls,
                 0, ZerosY(c), ZerosB(c), 0)

-----------------------------------------------------------------------------
(* The inputs of generate *)

\* a ground-truth box of the resized image: corners in pixels, inside the
\* image, of positive width and height
PixelBoxes(c) ==
    { b \in (0..c.input_size) \X (0..c.input_size) \X (0..c.input_size) \X (0..c.input_size) :
        b[1] < b[3] /\ b[2] < b[4] }

\* the sequences over S of length n
SeqOfLen(S, n) == [1..n -> S]

-----------------------------------------------------------------------------
(* LabelBatchGenerator.generate as a process *)

IdleGen ==
    /\ gpc = "off"
    /\ boxes = <<>>
    /\ labels = <<>>
    /\ norm_boxes = <<>>
    /\ k = 0
    /\ y = <<>>
    /\ b_ = <<>>
    /\ true_box_index = 0
    /\ best_anchor = -1

InitGen ==
    /\ conf \in LabelConfigs
    /\ gpc = "idle"
    /\ boxes = <<>>
    /\ labels = <<>>
    /\ norm_boxes = <<>>
    /\ k = 0
    /\ y = <<>>
    /\ b_ = <<>>
    /\ true_box_index = 0
    /\ best_anchor = -1

\* generate(boxes, labels): the call and the code before the loop, the zero tensors and the normalized
\* boxes.  generate keeps everything it writes in locals and reads only fields
\* set at construction, so one call per behaviour covers every call.
GenerateCall ==
    /\ gpc = "idle"
    /\ \E n \in 0..MaxBoxes :
         \E bs \in SeqOfLen(PixelBoxes(conf), n) :
           \E ls \in SeqOfLen(0..(conf.n_classes - 1), n) :
             /\ boxes' = bs
             /\ labels' = ls
             /\ norm_boxes' = to_normalize(to_centroid(bs), conf.input_size, conf.grid_size)
    /\ true_box_index' = 0
    /\ y' = ZerosY(conf)
    /\ b_' = ZerosB(conf)
    /\ k' = 0
    /\ best_anchor' = -1
    /\ gpc' = "loop"
    /\ UNCHANGED <<conf, batchVars, trainVars, predictVars>>

\* one iteration of "for norm_box, label in zip(norm_boxes, labels)"
GenerateStep ==
    /\ gpc = "loop"
    /\ k < ZipLen(norm_boxes, labels)
    /\ LET norm_box == norm_boxes[k + 1]
           label    == labels[k + 1]
           best     == get_anchor_idx(conf, norm_box)
       IN  /\ best_anchor' = best
           /\ y' = StepY(conf, y, norm_box, label)
           /\ b_' = StepB(b_, true_box_index, norm_box)
    /\ true_box_index' = NextTrueBoxIndex(conf, true_box_index)
    /\ k' = k + 1
    /\ UNCHANGED <<conf, gpc, boxes, labels, norm_boxes, batchVars, trainVars, predictVars>>

\* the loop is exhausted: return y, b_
GenerateReturn ==
    /\ gpc = "loop"
    /\ k = ZipLen(norm_boxes, labels)
    /\ gpc' = "done"
    /\ UNCHANGED <<conf, boxes, labels, norm_boxes, k, y, b_, true_box_index, best_anchor,
                   batchVars, trainVars, predictVars>>

NextGen == GenerateCall \/ GenerateStep \/ GenerateReturn

-----------------------------------------------------------------------------
(* The annotation source and the image loader (yolo.annotation and            *)
(* yolo.augment are not among the sources; modelled from the design text)    *)

\* the n-th image of the data set explored: n % 3 boxes, each with its label
SampleAnnotation(c, n) ==
    [fname  |-> n,
     boxes  |-> [j \in 1..(n % 3) |->
                   <<0, 0, 1 + ((n + j) % c.input_size), 1 + (j % c.input_size)>>],
     labels |-> [j \in 1..(n % 3) |-> (n + j) % c.n_classes]]

\* an index the annotation source answers: fname(i), boxes(i), code_labels(i)
\* are defined for the components 0 .. length-1
ValidIndex(anns, i) == i \in 0..(Len(anns) - 1)

\* the component of index i (Python counts from 0)
Component(anns, i) == anns[i + 1]

\* annotations.shuffle(): the components in any order
Shuffles(anns) ==
    { [i \in 1..Len(anns) |-> anns[p[i]]] : p \in Permutations(1..Len(anns)) }

\* augment.imread(fname, boxes, w, h, jitter): the image and its boxes at the
\* network's size.  With jitter the augmentation draws at random; mirrored
\* is the draw, which flips the image and its boxes left to right.
Imread(c, ann, jit, mirrored) ==
    IF jit /\ mirrored
    THEN [img   |-> <<ann.fname, "mirrored">>,
          boxes |-> [j \in 1..Len(ann.boxes) |->
                       <<c.input_size - ann.boxes[j][3], ann.boxes[j][2],
                         c.input_size - ann.boxes[j][1], ann.boxes[j][4]>>]]
    ELSE [img |-> <<ann.fname, "plain">>, boxes |-> ann.boxes]

-----------------------------------------------------------------------------
(* BatchGenerator *)

IdleBatch ==
    /\ annotations = <<>>
    /\ jitter = FALSE
    /\ counter = 0
    /\ last = [op |-> "off", idx |-> 0, outcome |-> "none", ret |-> <<>>, repeat |-> FALSE]
    /\ fetches = 0
    /\ shuffle_calls = 0

\* BatchGenerator.__init__
InitBatch ==
    /\ conf \in Configs
    /\ \E n \in 1..MaxAnnotations :
         annotations = [i \in 1..n |-> SampleAnnotation(conf, i)]
    /\ jitter \in BOOLEAN
    /\ counter = 0
    /\ last = [op |-> "init", idx |-> 0, outcome |-> "none", ret |-> <<>>, repeat |-> FALSE]
    /\ fetches = 0
    /\ shuffle_calls = 0

\* BatchGenerator.__len__
BatchLen(anns) == Len(anns)

\* the global annotation index of slot i of batch idx: self.batch_size*idx + i
GlobalIndex(c, idx, i) == c.batch_size * idx + i

\* mutation of NextCounter: instances counted instead of batches
NextCounterByInstance(c, cnt) == cnt + c.batch_size

\* mutation of NextCounter: the increment left out
NextCounterStuck(c, cnt) == cnt

\* self.counter += 1
NextCounter(c, cnt) == cnt + 1

\* slot i of batch idx: x_batch[i] (norm is the identity), b_batch[i], y_batch[i]
BatchSlot(c, anns, jit, idx, i, mirrored) ==
    LET ann  == Component(anns, GlobalIndex(c, idx, i))
        read == Imread(c, ann, jit, mirrored)
        yb   == generate(c, read.boxes, ann.labels)
    IN  [x |-> read.img, b |-> yb[2], y |-> yb[1]]

\* __getitem__(idx), for a batch index below len(self)
GetItem(idx) ==
    /\ idx \in 0..(BatchLen(annotations) - 1)
    /\ counter < MaxCounter
    /\ IF \A i \in 0..(conf.batch_size - 1) : ValidIndex(annotations, GlobalIndex(conf, idx, i))
       THEN \E draws \in [0..(conf.batch_size - 1) -> IF jitter THEN BOOLEAN ELSE {FALSE}] :
              /\ last' = [op      |-> "getitem",
                          idx     |-> idx,
                          outcome |-> "returned",
                          ret     |-> [i \in 0..(conf.batch_size - 1) |->
                                        BatchSlot(conf, annotations, jitter, idx, i, draws[i])],
                          repeat  |-> (last.op = "getitem" /\ last.outcome = "returned" /\ last.idx = idx)]
              /\ counter' = NextCounter(conf, counter)
              /\ fetches' = fetches + 1
       ELSE \* the annotation source raises on the first index it does not hold
            /\ last' = [op |-> "getitem", idx |-> idx, outcome |-> "raised", ret |-> <<>>, repeat |-> FALSE]
            /\ counter' = counter
            /\ fetches' = fetches
    /\ shuffle_calls' = 0
    /\ UNCHANGED <<conf, annotations, jitter, genVars, trainVars, predictVars>>

\* on_epoch_end
OnEpochEnd ==
    /\ last.op # "off"
    /\ annotations' \in Shuffles(annotations)
    /\ shuffle_calls' = 1
    /\ counter' = 0
    /\ fetches' = 0
    /\ last' = [op |-> "on_epoch_end", idx |-> 0, outcome |-> "returned", ret |-> <<>>, repeat |-> FALSE]
    /\ UNCHANGED <<conf, jitter, genVars, trainVars, predictVars>>

GetItemCall == \E idx \in 0..(MaxAnnotations - 1) : GetItem(idx)

NextBatch == GetItemCall \/ OnEpochEnd

-----------------------------------------------------------------------------
(* train(conf) of src/yolo/train.py *)

\* the label names a configuration or an annotation may use
LabelNames == {"a", "b", "c"}

\* the elements of a list
Range(f) == {f[i] : i \in DOMAIN f}

IdleTrain ==
    /\ tpc = "off"
    /\ model_labels = <<>>
    /\ train_labels = {}
    /\ valid_exists = FALSE
    /\ weights_exist = FALSE
    /\ printed = FALSE
    /\ steps = <<>>

\* the call: the configuration file and the file system train will meet
InitTrain ==
    /\ tpc = "start"
    /\ \E n \in 0..MaxLabels : model_labels \in SeqOfLen(LabelNames, n)
    /\ train_labels \in SUBSET LabelNames
    /\ valid_exists \in BOOLEAN
    /\ weights_exist \in BOOLEAN
    /\ printed = FALSE
    /\ steps = <<>>

\* parse_annotation of the training set
ParseTrainAnnotations ==
    /\ tpc = "start"
    /\ tpc' = "validation"
    /\ UNCHANGED <<model_labels, train_labels, valid_exists, weights_exist, printed, steps>>
    /\ UNCHANGED <<conf, genVars, batchVars, predictVars>>

\* the validation folder exists: parse_annotation of the validation set
ParseValidAnnotations ==
    /\ tpc = "validation"
    /\ valid_exists
    /\ tpc' = "check"
    /\ UNCHANGED <<model_labels, train_labels, valid_exists, weights_exist, printed, steps>>
    /\ UNCHANGED <<conf, genVars, batchVars, predictVars>>

\* no validation folder: the training images are shuffled and split 80/20
SplitTrainValid ==
    /\ tpc = "validation"
    /\ ~valid_exists
    /\ tpc' = "check"
    /\ UNCHANGED <<model_labels, train_labels, valid_exists, weights_exist, printed, steps>>
    /\ UNCHANGED <<conf, genVars, batchVars, predictVars>>

\* set(config['model']['labels']).intersection(set(train_labels.keys()))
OverlapLabels(given, seen) == Range(given) \cap seen

\* mutation of LabelsMismatch: the overlap compared with the labels seen
LabelsMismatchOfSeen(given, seen) ==
    Cardinality(OverlapLabels(given, seen)) < Cardinality(seen)

\* len(overlap_labels) < len(config['model']['labels'])
LabelsMismatch(given, seen) ==
    Cardinality(OverlapLabels(given, seen)) < Len(given)

\* the mismatch branch: print the message and return
WarnAndReturn ==
    /\ tpc = "check"
    /\ LabelsMismatch(model_labels, train_labels)
    /\ printed' = TRUE
    /\ tpc' = "returned"
    /\ UNCHANGED <<model_labels, train_labels, valid_exists, weights_exist, steps>>
    /\ UNCHANGED <<conf, genVars, batchVars, predictVars>>

\* no mismatch: yolo = YOLO(...)
ConstructModel ==
    /\ tpc = "check"
    /\ ~LabelsMismatch(model_labels, train_labels)
    /\ steps' = Append(steps, "YOLO")
    /\ tpc' = "weights"
    /\ UNCHANGED <<model_labels, train_labels, valid_exists, weights_exist, printed>>
    /\ UNCHANGED <<conf, genVars, batchVars, predictVars>>

\* the pretrained weights exist: yolo.load_weights(...)
LoadWeights ==
    /\ tpc = "weights"
    /\ weights_exist
    /\ steps' = Append(steps, "load_weights")
    /\ tpc' = "generator_config"
    /\ UNCHANGED <<model_labels, train_labels, valid_exists, weights_exist, printed>>
    /\ UNCHANGED <<conf, genVars, batchVars, predictVars>>

\* no pretrained weights
SkipWeights ==
    /\ tpc = "weights"
    /\ ~weights_exist
    /\ tpc' = "generator_config"
    /\ UNCHANGED <<model_labels, train_labels, valid_exists, weights_exist, printed, steps>>
    /\ UNCHANGED <<conf, genVars, batchVars, predictVars>>

\* GeneratorConfig(...) is called with seven positional arguments and takes
\* six: the call raises TypeError, and train ends there
MakeGeneratorConfig ==
    /\ tpc = "generator_config"
    /\ steps' = Append(steps, "GeneratorConfig")
    /\ tpc' = "raised"
    /\ UNCHANGED <<model_labels, train_labels, valid_exists, weights_exist, printed>>
    /\ UNCHANGED <<conf, genVars, batchVars, predictVars>>

NextTrain ==
    \/ ParseTrainAnnotations
    \/ ParseValidAnnotations
    \/ SplitTrainValid
    \/ WarnAndReturn
    \/ ConstructModel
    \/ LoadWeights
    \/ SkipWeights
    \/ MakeGeneratorConfig

-----------------------------------------------------------------------------
(* The predict commands: src/predict_driver.py and src/yolo/predict.py *)

\* the characters paths are made of
PathChars == {"a", "b", "."}

\* the paths explored: file names of up to MaxPathLen characters with a
\* non-empty stem and a non-empty extension
Paths ==
    { path \in UNION { SeqOfLen(PathChars, n) : n \in 1..MaxPathLen } :
        /\ path[1] # "." /\ path[Len(path)] # "."
        /\ \E i \in DOMAIN path : path[i] = "." }

\* the literal '_detected'
Detected == <<"_", "d", "e", "t", "e", "c", "t", "e", "d">>

\* the extension width both commands slice by: s[:-4] and s[-4:]
ExtWidth == 4

\* Python s[:-n] for n > 0: all but the last n characters, '' for a shorter s
SliceDropLast(str, n) ==
    IF Len(str) >= n THEN SubSeq(str, 1, Len(str) - n) ELSE <<>>

\* Python s[-n:] for n > 0: the last n characters, all of a shorter s
SliceLast(str, n) ==
    IF Len(str) >= n THEN SubSeq(str, Len(str) - n + 1, Len(str)) ELSE str

\* path[:-4] + '_detected' + path[-4:]
DetectedPath(path) ==
    SliceDropLast(path, ExtWidth) \o Detected \o SliceLast(path, ExtWidth)

IdlePredict ==
    /\ ppc = "off"
    /\ entry = "none"
    /\ input_path = <<>>
    /\ output_path = <<>>

InitPredict ==
    /\ ppc = "start"
    /\ entry = "none"
    /\ input_path \in Paths
    /\ output_path = <<>>

\* predict_driver.py __main__: output_path = args.input[:-4] + '_detected' + args.input[-4:]
DriverMain ==
    /\ ppc = "start"
    /\ output_path' = DetectedPath(input_path)
    /\ entry' = "driver"
    /\ ppc' = "done"
    /\ UNCHANGED <<input_path, conf, genVars, batchVars, trainVars>>

\* yolo.predict.predict: cv2.imwrite(image_path[:-4] + '_detected' + image_path[-4:], image)
Predict ==
    /\ ppc = "start"
    /\ output_path' = DetectedPath(input_path)
    /\ entry' = "predict"
    /\ ppc' = "done"
    /\ UNCHANGED <<input_path, conf, genVars, batchVars, trainVars>>

NextPredict == DriverMain \/ Predict

-----------------------------------------------------------------------------
(* Specifications *)

\* the specifications of train and predict build no generator
IdleConf == conf = <<>>

Init == InitGen /\ IdleBatch /\ IdleTrain /\ IdlePredict

Spec == Init /\ [][NextGen]_vars

InitOfBatch == InitBatch /\ IdleGen /\ IdleTrain /\ IdlePredict

SpecBatch == InitOfBatch /\ [][NextBatch]_vars

InitOfTrain == InitTrain /\ IdleConf /\ IdleGen /\ IdleBatch /\ IdlePredict

SpecTrain == InitOfTrain /\ [][NextTrain]_vars

InitOfPredict == InitPredict /\ IdleConf /\ IdleGen /\ IdleBatch /\ IdleTrain

SpecPredict == InitOfPredict /\ [][NextPredict]_vars

-----------------------------------------------------------------------------
(* Properties of LabelBatchGenerator, checked under Spec *)

\* exact comparison of two rationals <<n, d>> with d > 0
RatLess(p, q) == p[1] * q[2] < q[1] * p[2]
RatLeq(p, q) == p[1] * q[2] <= q[1] * p[2]

\* floor of the number num/Den(conf)
Floor(num) == num \div Den(conf)

\* size-only IoU of normalized box nb with anchor i: both at the origin
SizeIoU(nb, i) ==
    LET aw    == conf.anchors[2*i + 1] * Den(conf)
        ah    == conf.anchors[2*i + 2] * Den(conf)
        inter == Min(nb[3], aw) * Min(nb[4], ah)
    IN  <<inter, nb[3] * nb[4] + aw * ah - inter>>

\* the encoding [cx, cy, w, h, 1, one-hot(label)] of the i-th pair
Encoding(i) ==
    [e \in 0..(4 + conf.n_classes) |->
        IF e <= 3 THEN norm_boxes[i][e + 1]
        ELSE IF e = 4 \/ e = 5 + labels[i] THEN 1 ELSE 0]

\* the cell-anchor slot the i-th pair is assigned to
SlotOfBox(i) ==
    <<Floor(norm_boxes[i][2]), Floor(norm_boxes[i][1]), get_anchor_idx(conf, norm_boxes[i])>>

GridShape ==
    (0..(conf.grid_size - 1)) \X (0..(conf.grid_size - 1)) \X (0..(conf.nb_box - 1))

\* C1: generate with exactly one box (cx, cy, w, h) and one label L, the box
\* given anchor a: the only slot of the grid target that is not all zero is
\* [floor(cy), floor(cx), a]; it holds cx, cy, w, h in entries 0..3, 1 in
\* entry 4, 1 in entry 5+L and 0 in every other class entry.
C1_SingleBoxTarget ==
    (gpc = "done" /\ Len(boxes) = 1 /\ Len(labels) = 1) =>
        LET nb   == norm_boxes[1]
            cell == <<Floor(nb[2]), Floor(nb[1]), best_anchor>>
        IN  /\ DOMAIN y = GridShape
            /\ cell \in DOMAIN y
            /\ \A e \in 0..3 : y[cell][e] = nb[e + 1]
            /\ y[cell][4] = 1
            /\ \A cl \in 0..(conf.n_classes - 1) :
                 y[cell][5 + cl] = IF cl = labels[1] THEN 1 ELSE 0
            /\ \A s \in DOMAIN y : s # cell => \A e \in DOMAIN y[s] : y[s][e] = 0

\* C1 witness: one box whose row and column differ, with the second label and
\* the second anchor
C1_Witness ==
    /\ gpc = "done" /\ Len(boxes) = 1 /\ Len(labels) = 1
    /\ Floor(norm_boxes[1][1]) # Floor(norm_boxes[1][2])
    /\ labels[1] = 1
    /\ best_anchor = 1

\* C2: _get_anchor_idx returns an index in [0, nb_anchors) whose size-only IoU
\* with the box is at least every anchor's, and every anchor of lower index
\* has a strictly smaller IoU (the first of the best anchors is returned).
C2_BestAnchorFirstMax ==
    (gpc \in {"loop", "done"} /\ k >= 1) =>
        LET nb == norm_boxes[k]
        IN  /\ best_anchor \in 0..(conf.nb_box - 1)
            /\ \A i \in 0..(conf.nb_box - 1) :
                 RatLeq(SizeIoU(nb, i), SizeIoU(nb, best_anchor))
            /\ \A i \in 0..(best_anchor - 1) :
                 RatLess(SizeIoU(nb, i), SizeIoU(nb, best_anchor))

\* C2 witness: the chosen anchor is not the first one, and a later anchor
\* ties with it
C2_Witness ==
    /\ gpc \in {"loop", "done"} /\ k >= 1
    /\ best_anchor >= 1
    /\ \E i \in (best_anchor + 1)..(conf.nb_box - 1) :
         /\ RatLeq(SizeIoU(norm_boxes[k], i), SizeIoU(norm_boxes[k], best_anchor))
         /\ RatLeq(SizeIoU(norm_boxes[k], best_anchor), SizeIoU(norm_boxes[k], i))

\* the positions, among the first n processed, written to buffer slot j
WritersOf(j, n) == {i \in 0..(n - 1) : i % conf.max_box_per_image = j}

\* the largest element of a non-empty set of integers
Last(S) == CHOOSE m \in S : \A i \in S : i <= m

\* C4: after k boxes are processed the next write goes to slot
\* k mod max_box_per_image, which lies in [0, max_box_per_image); slot j holds
\* the last processed box whose position is congruent to j, and is all zero
\* when there is none (so the slots of index >= n stay zero).
C4_TruthBoxRing ==
    (gpc \in {"loop", "done"}) =>
        /\ true_box_index \in 0..(conf.max_box_per_image - 1)
        /\ true_box_index = k % conf.max_box_per_image
        /\ DOMAIN b_ = 0..(conf.max_box_per_image - 1)
        /\ \A j \in 0..(conf.max_box_per_image - 1) :
             b_[j] = IF WritersOf(j, k) = {} THEN <<0, 0, 0, 0>>
                     ELSE norm_boxes[Last(WritersOf(j, k)) + 1]

\* C4 witness: more boxes than slots, slot 0 rewritten with a different box
C4_Witness ==
    /\ gpc = "done"
    /\ k > conf.max_box_per_image
    /\ conf.max_box_per_image > 1
    /\ b_[0] = norm_boxes[conf.max_box_per_image + 1]
    /\ b_[0] # norm_boxes[1]
    /\ b_[1] = norm_boxes[2]

\* C5: in the returned grid target every slot's objectness is 0 or 1 and its
\* class entries are all zero or one-hot, whatever the boxes.
C5_ObjectnessBinaryOneHot ==
    gpc = "done" =>
        \A s \in DOMAIN y :
            /\ y[s][4] \in {0, 1}
            /\ \A cl \in 0..(conf.n_classes - 1) : y[s][5 + cl] \in {0, 1}
            /\ Cardinality({cl \in 0..(conf.n_classes - 1) : y[s][5 + cl] = 1}) <= 1

\* C6: a slot two or more boxes of one call are assigned to holds the
\* elementwise sum of the encodings of all of them.
C6_CollisionSum ==
    gpc = "done" =>
        \A s \in DOMAIN y :
            LET hits == {i \in 1..Len(norm_boxes) : SlotOfBox(i) = s}
            IN  Cardinality(hits) >= 2 =>
                  \A e \in DOMAIN y[s] :
                      y[s][e] = SumSet(hits, [i \in hits |-> Encoding(i)[e]])

\* C6 witness: three boxes in one slot, the first and the last of different
\* labels and sizes
C6_Witness ==
    /\ gpc = "done"
    /\ Len(norm_boxes) = 3
    /\ SlotOfBox(1) = SlotOfBox(2) /\ SlotOfBox(2) = SlotOfBox(3)
    /\ labels[1] # labels[3]
    /\ norm_boxes[1] # norm_boxes[3]
    /\ y[SlotOfBox(1)][4] = 3

\* C7: generate with no boxes and no labels returns a grid target of shape
\* (grid_size, grid_size, nb_box, 4+1+n_classes) and a truth-box buffer of
\* max_box_per_image slots, both all zero.
C7_ZeroBoxes ==
    (gpc = "done" /\ Len(boxes) = 0 /\ Len(labels) = 0) =>
        /\ DOMAIN y = GridShape
        /\ \A s \in DOMAIN y :
             /\ DOMAIN y[s] = 0..(4 + conf.n_classes)
             /\ \A e \in DOMAIN y[s] : y[s][e] = 0
        /\ DOMAIN b_ = 0..(conf.max_box_per_image - 1)
        /\ \A j \in DOMAIN b_ : b_[j] = <<0, 0, 0, 0>>

\* C7 witness: a call without boxes has returned
C7_Witness ==
    /\ gpc = "done" /\ Len(boxes) = 0 /\ Len(labels) = 0 /\ k = 0
    /\ conf.nb_box # conf.max_box_per_image

\* the sum of entry e of the grid target over all its cell-anchor slots
EntryTotal(e) == SumSet(DOMAIN y, [s \in DOMAIN y |-> y[s][e]])

\* the boxes inside the grid with a label in [0, n_classes)
AllInsideGrid ==
    \A i \in 1..Len(norm_boxes) :
        /\ Floor(norm_boxes[i][1]) \in 0..(conf.grid_size - 1)
        /\ Floor(norm_boxes[i][2]) \in 0..(conf.grid_size - 1)
        /\ labels[i] \in 0..(conf.n_classes - 1)

\* C12: for n boxes inside the grid with labels in [0, n_classes), the
\* objectness entries of the returned grid target sum to n over all slots,
\* and for each class c the entries 5+c sum to the number of boxes labelled
\* c, whether or not boxes share a cell and anchor.
C12_Conservation ==
    (gpc = "done" /\ Len(boxes) = Len(labels) /\ AllInsideGrid) =>
        /\ EntryTotal(4) = Len(boxes)
        /\ \A cl \in 0..(conf.n_classes - 1) :
             EntryTotal(5 + cl) = Cardinality({i \in 1..Len(labels) : labels[i] = cl})

\* C12 witness: three boxes, two of them of different labels in one slot and
\* the third in another slot
C12_Witness ==
    /\ gpc = "done" /\ Len(boxes) = 3 /\ AllInsideGrid
    /\ SlotOfBox(1) = SlotOfBox(2)
    /\ SlotOfBox(3) # SlotOfBox(1)
    /\ labels[1] # labels[2]
    /\ y[SlotOfBox(1)][4] = 2
    /\ y[SlotOfBox(3)][4] = 1

-----------------------------------------------------------------------------
(* Properties of BatchGenerator, checked under SpecBatch *)

\* C3: a __getitem__(i) with i in [0, len(generator)) never raises: every
\* global annotation index batch_size*i + s it reads, s in [0, batch_size),
\* is a valid index of the annotation source.
C3_GetItemIndicesValid ==
    last.op = "getitem" =>
        /\ last.outcome = "returned"
        /\ \A s \in 0..(conf.batch_size - 1) :
             conf.batch_size * last.idx + s \in 0..(Len(annotations) - 1)

\* two successive fetches of one index, without jitter, return equal batches
SameFetchSameBatch ==
    ( /\ ~jitter
      /\ last.op = "getitem" /\ last.outcome = "returned"
      /\ last'.outcome = "returned" /\ last'.idx = last.idx )
    => last'.ret = last.ret

\* C9 as stated: a __getitem__ call leaves the generator's state (annotation
\* order, config with its anchors, jitter flag, batch counter) as it was, and
\* two successive fetches of one index with jitter off return equal batches.
C9_GetItemSideEffectFree ==
    [][GetItemCall =>
         /\ annotations' = annotations
         /\ conf' = conf
         /\ jitter' = jitter
         /\ counter' = counter
         /\ SameFetchSameBatch]_vars

\* C9 amended: a __getitem__ call changes nothing of the generator but the
\* batch counter, which a call that returns raises by one and a call that
\* raises leaves alone; two successive fetches of one index with jitter off
\* return equal batches.
C9_GetItemOnlyCounts ==
    [][GetItemCall =>
         /\ annotations' = annotations
         /\ conf' = conf
         /\ jitter' = jitter
         /\ counter' = IF last'.outcome = "returned" THEN counter + 1 ELSE counter
         /\ SameFetchSameBatch]_vars

\* C9 witness: the same batch of two images fetched twice in a row, jitter off
C9_Witness ==
    /\ last.op = "getitem" /\ last.outcome = "returned" /\ last.repeat
    /\ ~jitter
    /\ conf.batch_size = 2
    /\ counter = 2
    /\ last.ret[0].x # last.ret[1].x

\* C11: the counter equals the number of __getitem__ calls completed since
\* the most recent on_epoch_end (or since construction); an on_epoch_end
\* call invokes the annotation source's shuffle exactly once and leaves the
\* counter at 0; a __getitem__ call never invokes shuffle.
C11_CounterCountsFetches ==
    /\ counter = fetches
    /\ last.op = "on_epoch_end" => (shuffle_calls = 1 /\ counter = 0)
    /\ last.op = "getitem" => shuffle_calls = 0

\* C11, on the steps: a __getitem__ call leaves the annotation order as it is
C11_GetItemNeverShuffles == [][GetItemCall => annotations' = annotations]_vars

\* C11 witness: a fetch completed after an on_epoch_end that reordered the
\* annotations, then a fetch that raised and was not counted
C11_Witness ==
    /\ last.op = "getitem" /\ last.outcome = "raised"
    /\ counter = 1 /\ fetches = 1
    /\ shuffle_calls = 0
    /\ annotations[1].fname # 1

-----------------------------------------------------------------------------
(* Properties of train, checked under SpecTrain *)

\* train is past the label check
PastCheck == tpc \in {"returned", "weights", "generator_config", "raised"}

\* some configured label is not among the labels seen
SomeLabelUnseen == \E i \in DOMAIN model_labels : model_labels[i] \notin train_labels

\* a label is configured twice
SomeLabelTwice ==
    \E i, j \in DOMAIN model_labels : i # j /\ model_labels[i] = model_labels[j]

\* train returned at the check: the message printed, nothing done after it
ReturnedEarly == tpc = "returned" /\ printed /\ steps = <<>>

\* train went on to the model construction, the first step after the check
WentOnToModel == tpc # "returned" /\ ~printed /\ Len(steps) >= 1 /\ steps[1] = "YOLO"

-----------------------------------------------------------------------------
(* Properties of the predict commands, checked under SpecPredict *)

\* the position of the last '.' of a path that has one
LastDot(path) ==
    CHOOSE i \in DOMAIN path :
        path[i] = "." /\ \A j \in DOMAIN path : path[j] = "." => j <= i

\* C10: the output path is the input path with '_detected' inserted right
\* before the extension, the last '.' and what follows it, whatever the
\* extension's length.
C10_DetectedBeforeExtension ==
    (ppc = "done" /\ \E i \in DOMAIN input_path : input_path[i] = ".") =>
        output_path =
            SubSeq(input_path, 1, LastDot(input_path) - 1) \o Detected \o
            SubSeq(input_path, LastDot(input_path), Len(input_path))

=============================================================================
